---- MODULE Spec2Model ----
(***************************************************************************)
(* Kolam generator: gate grid, stochastic gate assigner, path automaton,   *)
(* multi-trial selector (Dice) and local-search optimizer                  *)
(* (FlipTestSwitch / IterFlipTestSwitch) of api/kolam_algorithm_fixed.py,  *)
(* driven as in handler.generate_kolam_base64 of api/generate.py.          *)
(*                                                                         *)
(* Matrices are functions 0..ND -> 0..ND -> {0, 1, 99}; the numpy floats   *)
(* 0.0, 1.0 and 99.0 are the integers 0, 1 and 99.  Path positions are the *)
(* integer lattice coordinates of the source; draw-points, which the       *)
(* source keeps in steps of 0.5, are kept in half units (twice the value). *)
(***************************************************************************)
EXTENDS Integers, Sequences, FiniteSets, TLC

\* ------------------------------------------------------------------------
\* Bounds of the model
\* ------------------------------------------------------------------------

\* lattice dimensions of the full generation run (ND odd, >= 5)
RunNDs == {5}

\* lattice dimensions on which the assigner and the tracer are explored
GridNDs == {5, 7}

\* Nthr of the source is 10 trials; the model runs this many
Nthr == 2

\* Niter of the source is 40 (80 for one_stroke); the model offers 0..MaxNiter
MaxNiter == 1

\* sweeps asked of the optimizer in the specification that runs it more
\* than once
ImproveSweeps == 2

\* max_attempts of the source is 200; the model runs this many
max_attempts == 2

\* krRef = 1 - sigmaref in thousandths, for the default sigmaref = 0.65
krRef == 350

\* ksh in thousandths
ksh == 500

Abs(x) == IF x < 0 THEN 0 - x ELSE x

Profiles == {"diamond", "corners", "fish", "waves", "fractal", "organic"}

\* Variant of the cap that is linear in ND
NsOfLinear(nd) == (2 * nd + 1) * 5

\* KolamDraw.__init__: self.Ns
NsOf(nd) == (2 * (nd * nd) + 1) * 5

\* KolamDraw.__init__: self.A1, all 99
A1(nd) == [a \in 0..nd |-> [b \in 0..nd |-> 99]]

\* KolamDraw.__init__: self.F1, all 1
F1(nd) == [a \in 0..nd |-> [b \in 0..nd |-> 1]]

\* ------------------------------------------------------------------------
\* Boundary mask (is_inside_boundary), in exact integer arithmetic
\* ------------------------------------------------------------------------

RECURSIVE BitAnd(_, _)
\* Python's & on non-negative integers
BitAnd(a, b) ==
  IF a = 0 \/ b = 0 THEN 0
  ELSE (a % 2) * (b % 2) + 2 * BitAnd(a \div 2, b \div 2)

\* abs(x) >= ND*0.3 and abs(y) >= ND*0.3
InsideCorners(nd, x, y) == 10 * Abs(x) >= 3 * nd /\ 10 * Abs(y) >= 3 * nd

\* int(sqrt(x^2+y^2) / (ND*0.35)): the k with 7k*ND <= 20*dist < 7(k+1)*ND
RingNum(nd, x, y) ==
  CHOOSE k \in 0..5 :
    /\ 49 * k * k * nd * nd <= 400 * (x * x + y * y)
    /\ 400 * (x * x + y * y) < 49 * (k + 1) * (k + 1) * nd * nd

InsideFish(nd, x, y) == RingNum(nd, x, y) % 2 = 0

\* Cells where sin(x*f) + sin(y*f) is exactly 0 over the reals
\* (5(x+y) a multiple of 3*ND): the float sum there is rounding noise.
WavesTie(nd, x, y) == (5 * (x + y)) % (3 * nd) = 0

\* Sign of the float sum at the tie cells, as IEEE double arithmetic with a
\* correctly rounded sin yields it: positive at the cells listed.
WavesTiePositive(nd, x, y) ==
  nd = 5 /\ <<x, y>> \in {<<0 - 3, 0 - 3>>, <<0 - 3, 0>>, <<0, 0 - 3>>}

\* sin(a) + sin(b) = 2 sin((a+b)/2) cos((a-b)/2) with a = x*f, b = y*f,
\* f = 2*pi / (0.6*ND): positive iff both factors have the same sign.
InsideWaves(nd, x, y) ==
  IF WavesTie(nd, x, y) THEN WavesTiePositive(nd, x, y)
  ELSE LET u == (5 * (x + y)) % (6 * nd)
           v == (10 * (x - y) + 3 * nd) % (12 * nd)
       IN  (u < 3 * nd) <=> (v < 6 * nd)

\* (int(abs(x)+ND) & int(abs(y)+ND)) % 4 < 2
InsideFractal(nd, x, y) == BitAnd(Abs(x) + nd, Abs(y) + nd) % 4 < 2

\* dist < 0.8*ND + 0.2*ND*sin(3*atan2(y,x)).  With d2 = dist^2 and
\* sin(3t) = y(3x^2 - y^2)/dist^3 this is P < 4*ND*dist^3 for
\* P = 5*d2^2 - N, N = ND*y*(3x^2 - y^2); for P >= 0, squaring gives
\* N^2 < d2^2 * (16*ND^2*d2 - 25*d2^2 + 10*N).  atan2(0,0) = 0 at dist = 0.
\* Equality over the reals occurs at border cells only, which
\* ResetGateMatrix closes and fixes whatever the mask says.
InsideOrganic(nd, x, y) ==
  LET d2 == x * x + y * y
      N  == nd * y * (3 * x * x - y * y)
      P  == 5 * d2 * d2 - N
      R  == 16 * nd * nd * d2 - 25 * d2 * d2 + 10 * N
  IN  IF d2 = 0 THEN TRUE
      ELSE P < 0 \/ (N * N) \div (d2 * d2) < R

is_inside_boundary(nd, bt, i, j) ==
  LET x == i - nd
      y == j - nd
  IN  CASE bt = "diamond" -> TRUE
        [] bt = "corners" -> InsideCorners(nd, x, y)
        [] bt = "fish"    -> InsideFish(nd, x, y)
        [] bt = "waves"   -> InsideWaves(nd, x, y)
        [] bt = "fractal" -> InsideFractal(nd, x, y)
        [] bt = "organic" -> InsideOrganic(nd, x, y)
        [] OTHER          -> TRUE

\* ------------------------------------------------------------------------
\* Gate grid
\* ------------------------------------------------------------------------

\* The four symmetric positions written by one chained assignment
\* M[i,j] = M[j,i] = M[Nx1-i,Nx1-j] = M[Nx1-j,Nx1-i] = v   (Nx1 = ND)
Sym(nd, i, j) == {<<i, j>>, <<j, i>>, <<nd - i, nd - j>>, <<nd - j, nd - i>>}

Write4(M, nd, i, j, v) ==
  [a \in 0..nd |-> [b \in 0..nd |->
      IF <<a, b>> \in Sym(nd, i, j) THEN v ELSE M[a][b]]]

\* Variant that leaves out the last row and the last column
IsBorderFirst(nd, i, j) == i = 0 \/ j = 0

IsBorder(nd, i, j) == i = 0 \/ j = 0 \/ i = nd \/ j = nd

IsDiagonal(nd, i, j) == i = j \/ i + j = nd

\* ResetGateMatrix: border 0/fixed, then the two diagonals 1/fixed, then
\* every cell outside the boundary 0/fixed (in this order, later wins).
ResetGateMatrix(nd, bt) ==
  LET masked(i, j) == bt # "diamond" /\ ~is_inside_boundary(nd, bt, i, j)
  IN  [A |-> [i \in 0..nd |-> [j \in 0..nd |->
                 IF masked(i, j) THEN 0
                 ELSE IF IsBorder(nd, i, j) THEN 0
                 ELSE IF IsDiagonal(nd, i, j) THEN 1
                 ELSE 99]],
       F |-> [i \in 0..nd |-> [j \in 0..nd |->
                 IF masked(i, j) \/ IsBorder(nd, i, j) \/ IsDiagonal(nd, i, j)
                 THEN 0 ELSE 1]]]

\* ------------------------------------------------------------------------
\* Random source (numpy's module-level generator, np.random)
\* ------------------------------------------------------------------------

\* State of the generator.  Free stands for a generator whose state is not
\* known (unseeded): every draw can return every value of its range.  A
\* number in Seeds is the state of a seeded generator, abstracted as the
\* full-period linear congruential sequence s -> (5s + 3) mod 16.
Free == 0 - 1

Seeds == 0..15

LcgNext(s) == (5 * s + 3) % 16

\* np.random.randint(0, hi): the possible (value, next generator state)
\* pairs.  For hi = 1000 a free generator is represented by the two extreme
\* draws 0 and 999, which decide x > bias both ways for 0 <= bias < 0.999.
randint(rng, hi) ==
  IF rng = Free
  THEN {[v |-> x, rng |-> Free] : x \in {0, hi - 1}}
  ELSE {[v |-> (LcgNext(rng) * hi) \div 16, rng |-> LcgNext(rng)]}

\* toss(bias): x = randint(0, 1000) / 1000; 1 if x > bias else 0.
\* bias is in thousandths.  The assigner's bias kr = krRef + Kp*errkr +
\* Ki*errAckr stays within 0.02 of krRef (Kp = 0.01, |errkr| <= 1,
\* Ki = 0.0001, at most 12 terms in errAckr); no draw of the model lies
\* between 0.33 and 0.37, so x > kr iff x > krRef and the controller's
\* counters count1, count01 and errAckr do not influence any outcome.
toss(rng, bias) ==
  {[v |-> IF d.v > bias THEN 1 ELSE 0, rng |-> d.rng] : d \in randint(rng, 1000)}

\* ------------------------------------------------------------------------
\* Stochastic gate assigner (AssignGates)
\* ------------------------------------------------------------------------

\* Variant of the rule without the forced OPEN: always toss
AlwaysToss(nd, s, a, b, c, wi, wj) ==
  {[A |-> Write4(s.A, nd, wi, wj, x.v),
    F |-> Write4(s.F, nd, wi, wj, 0),
    rng |-> x.rng] : x \in toss(s.rng, krRef)}

\* x = 1 if a + b + c < 0.1 else toss(kr), then the symmetric write of x at
\* (wi, wj) with F cleared there; s is [A, F, rng].
ForcedOrToss(nd, s, a, b, c, wi, wj) ==
  LET xs == IF a + b + c < 1 THEN {[v |-> 1, rng |-> s.rng]}
            ELSE toss(s.rng, krRef)
  IN  {[A |-> Write4(s.A, nd, wi, wj, x.v),
        F |-> Write4(s.F, nd, wi, wj, 0),
        rng |-> x.rng] : x \in xs}

\* lines 141-156: both (i,j) and (i,j+1) unassigned
AssignBoth(nd, s, i, j) ==
  IF s.F[i][j + 1] = 1
  THEN UNION {
         LET s1 == [A |-> Write4(s.A, nd, i, j, t.v),
                    F |-> Write4(s.F, nd, i, j, 0),
                    rng |-> t.rng]
         IN  ForcedOrToss(nd, s1, s1.A[i - 1][j], s1.A[i - 1][j + 1],
                          s1.A[i][j], i, j + 1)
         : t \in toss(s.rng, krRef)}
  ELSE {s}

\* lines 157-166: (i,j+1) assigned, (i,j) tested under F[i,j] == 1 above
AssignLeft(nd, s, i, j) ==
  IF s.F[i][j + 1] = 0
  THEN ForcedOrToss(nd, s, s.A[i - 1][j], s.A[i - 1][j + 1],
                    s.A[i][j + 1], i, j)
  ELSE {s}

\* lines 167-177: (i,j) assigned, (i,j+1) unassigned
AssignRight(nd, s, i, j) ==
  IF s.F[i][j] = 0 /\ s.F[i][j + 1] = 1
  THEN ForcedOrToss(nd, s, s.A[i - 1][j], s.A[i - 1][j + 1],
                    s.A[i][j], i, j + 1)
  ELSE {s}

\* The body of the double loop at one cell (i,j), lines 140-177
AssignCell(nd, s, i, j) ==
  LET afterFirst ==
        IF s.F[i][j] = 1
        THEN UNION {AssignLeft(nd, s1, i, j) : s1 \in AssignBoth(nd, s, i, j)}
        ELSE {s}
  IN  UNION {AssignRight(nd, s2, i, j) : s2 \in afterFirst}

\* for i in range(1, Nx2): for j in range(i, Nx - i), in row-major order
QuadrantCells(nd) ==
  LET Nx2 == (nd + 1) \div 2
      rowLen(i) == nd + 1 - 2 * i
      cellsBefore(i) == (i - 1) * (nd + 1) - i * (i - 1)
      total == cellsBefore(Nx2)
      rowOf(k) == CHOOSE i \in 1..(Nx2 - 1) :
                    cellsBefore(i) < k /\ k <= cellsBefore(i) + rowLen(i)
  IN  [k \in 1..total |-> <<rowOf(k), rowOf(k) + (k - cellsBefore(rowOf(k)) - 1)>>]

RECURSIVE AssignFrom(_, _, _, _)
AssignFrom(nd, S, cells, k) ==
  IF k > Len(cells) THEN S
  ELSE AssignFrom(nd,
                  UNION {AssignCell(nd, s, cells[k][1], cells[k][2]) : s \in S},
                  cells, k + 1)

\* AssignGates: the set of [A, F, rng] it can return
AssignGates(nd, bt, rng) ==
  LET r == ResetGateMatrix(nd, bt)
  IN  AssignFrom(nd, {[A |-> r.A, F |-> r.F, rng |-> rng]}, QuadrantCells(nd), 1)

\* ------------------------------------------------------------------------
\* Path automaton (NextStep, XNextSteps, PathCount)
\* ------------------------------------------------------------------------

\* self.A[icgx2, jcx2] as numpy indexes it: a negative index down to -Nx
\* counts from the end; any other index out of 0..Nx-1 raises IndexError.
InRange(nd, k) == 0 - (nd + 1) <= k /\ k <= nd

Wrap(nd, k) == IF k < 0 THEN k + nd + 1 ELSE k

\* Variant of the encoding with the codes 1 and 2 exchanged
EncodeCodeSwapped(nalpha, nbeta) ==
  IF nalpha = 0 /\ nbeta = 1 THEN 0
  ELSE IF nalpha = 0 THEN 1
  ELSE IF nbeta = 1 THEN 2 ELSE 3

\* ne of NextStep, line 210
EncodeCode(nalpha, nbeta) ==
  IF nalpha = 0 /\ nbeta = 1 THEN 0
  ELSE IF nalpha = 0 THEN 2
  ELSE IF nbeta = 1 THEN 1 ELSE 3

\* NextStep(icg, jcg, ce) on gate matrix A.  err is TRUE when the index
\* raises IndexError; ingp, jngp are in half units; nalpha and nbeta are
\* the locals of that name.
NextStep(nd, A, icg, jcg, ce) ==
  LET icgx  == icg + nd
      jcx   == jcg + nd
      icgx2 == icgx \div 2
      jcx2  == jcx \div 2
      err   == ~(InRange(nd, icgx2) /\ InRange(nd, jcx2))
      calpha == ce % 2
      cbeta  == IF ce > 1 THEN 0 - 1 ELSE 1
      cgamma == IF (icgx + jcx) % 4 = 0 THEN 0 - 1 ELSE 1
      cg     == IF err THEN 0
                ELSE IF A[Wrap(nd, icgx2)][Wrap(nd, jcx2)] * 2 > 1 THEN 1 ELSE 0
      cgd     == 1 - cg
      calphad == 1 - calpha
      nalpha  == cg * calpha + cgd * calphad
      nbeta   == (cg + cgd * cgamma) * cbeta
      nh      == (calphad * cgamma * cgd + calpha * cg) * cbeta
      nv      == (calpha * cgamma * cgd + calphad * cg) * cbeta
  IN  [ing  |-> icg + nh * 2,
       jng  |-> jcg + nv * 2,
       ne   |-> EncodeCode(nalpha, nbeta),
       nalpha |-> nalpha,
       nbeta  |-> nbeta,
       ingp |-> 2 * icg + cgd * (calphad * cgamma - calpha) * cbeta,
       jngp |-> 2 * jcg + cgd * (calpha * cgamma - calphad) * cbeta,
       err  |-> err]

\* Value returned in place of a count when a step raised IndexError
IndexError == 0 - 1

RECURSIVE CountLoop(_, _, _, _, _, _)
RECURSIVE CountLoopAnyCode(_, _, _, _, _, _)

\* Variant of the loop that compares the position only, not the code
CountLoopAnyCode(nd, A, start, cur, isa, n) ==
  IF n = 0 THEN [cur |-> cur, hit |-> 0]
  ELSE IF n = 1
  THEN LET s == NextStep(nd, A, cur.i, cur.j, cur.ce)
       IN  [cur |-> [i |-> s.ing, j |-> s.jng, ce |-> s.ne],
            hit |-> IF s.err THEN IndexError
                    ELSE IF s.ing = start.i /\ s.jng = start.j
                    THEN isa + 1 ELSE 0]
  ELSE LET h == n \div 2
           first == CountLoopAnyCode(nd, A, start, cur, isa, h)
       IN  IF first.hit # 0 THEN first
           ELSE CountLoopAnyCode(nd, A, start, first.cur, isa + h, n - h)

\* The loop "while isa < Ns - 2" of PathCount and of Dice, for the n
\* iterations that follow iteration isa, entered in the state cur =
\* [i, j, ce]: hit is the index at which position and code first equal
\* those of start (0 if none does, IndexError if a step raised it, and the
\* loop stops at either), cur the state it ends in.  The iterations are
\* evaluated as two consecutive halves, the second only if the first ran
\* to its end.
CountLoop(nd, A, start, cur, isa, n) ==
  IF n = 0 THEN [cur |-> cur, hit |-> 0]
  ELSE IF n = 1
  THEN LET s == NextStep(nd, A, cur.i, cur.j, cur.ce)
       IN  [cur |-> [i |-> s.ing, j |-> s.jng, ce |-> s.ne],
            hit |-> IF s.err THEN IndexError
                    ELSE IF s.ing = start.i /\ s.jng = start.j /\ s.ne = start.ce
                    THEN isa + 1 ELSE 0]
  ELSE LET h == n \div 2
           first == CountLoop(nd, A, start, cur, isa, h)
       IN  IF first.hit # 0 THEN first
           ELSE CountLoop(nd, A, start, first.cur, isa + h, n - h)

\* isx of the loop entered with isa = 0: it runs while isa < Ns - 2
CountFrom(nd, A, start) == CountLoop(nd, A, start, start, 0, NsOf(nd) - 2).hit

\* The count PathCount returns for the start (2a-1, 2b-1), code 0, where a
\* and b are its two draws of randint(0, 2)
PathCountFrom(nd, A, a, b) ==
  CountFrom(nd, A, [i |-> 2 * a - 1, j |-> 2 * b - 1, ce |-> 0])

\* PathCount(): the possible [v = isx, rng = next generator state]
PathCount(nd, A, rng) ==
  UNION {{[v |-> PathCountFrom(nd, A, a.v, b.v), rng |-> b.rng]
           : b \in randint(a.rng, 2)} : a \in randint(rng, 2)}

\* The evaluation loop of Dice, lines 268-279: start (1,1), code 0
DiceCount(nd, A) == CountFrom(nd, A, [i |-> 1, j |-> 1, ce |-> 0])

RECURSIVE XSteps(_, _, _, _)
\* n iterations of the loop of XNextSteps entered in the state cur: the rows
\* they fill, [ijcx, cex] of the state before each step with the ijcp and
\* the err of that step, and the state after the last.  Evaluated as two
\* consecutive halves.
XSteps(nd, A, cur, n) ==
  IF n = 0 THEN [rows |-> <<>>, cur |-> cur]
  ELSE IF n = 1
  THEN LET s == NextStep(nd, A, cur.i, cur.j, cur.ce)
       IN  [rows |-> <<[ijcx |-> <<cur.i, cur.j>>, cex |-> cur.ce,
                        ijcp |-> <<s.ingp, s.jngp>>, err |-> s.err]>>,
            cur |-> [i |-> s.ing, j |-> s.jng, ce |-> s.ne]]
  ELSE LET h == n \div 2
           first == XSteps(nd, A, cur, h)
           rest  == XSteps(nd, A, first.cur, n - h)
       IN  [rows |-> first.rows \o rest.rows, cur |-> rest.cur]

\* XNextSteps(icgo, jcgo, ceo, Ns): rows 0..Ns-1 of ijcx, cex and ijcp as the
\* elements 1..Ns of a sequence (ijcp in half units; its last row stays 0).
\* The source executes no step after a row with err = TRUE.
XNextSteps(nd, A, icgo, jcgo, ceo, n) ==
  LET x == XSteps(nd, A, [i |-> icgo, j |-> jcgo, ce |-> ceo], n - 1)
  IN  Append(x.rows, [ijcx |-> <<x.cur.i, x.cur.j>>, cex |-> x.cur.ce,
                      ijcp |-> <<0, 0>>, err |-> FALSE])

\* ------------------------------------------------------------------------
\* Local-search optimizer
\* ------------------------------------------------------------------------

\* SwitchGate(ig, jg): the toggled copies Ax, Fx and Flag
SwitchGate(nd, A, F, ig, jg) ==
  IF A[ig][jg] * 10 < 1
  THEN [A |-> Write4(A, nd, ig, jg, 1), F |-> Write4(F, nd, ig, jg, 0), Flag |-> 1]
  ELSE IF A[ig][jg] * 10 > 9
  THEN [A |-> Write4(A, nd, ig, jg, 0), F |-> Write4(F, nd, ig, jg, 0), Flag |-> 0 - 1]
  ELSE [A |-> A, F |-> F, Flag |-> 0]

Max(a, b) == IF a > b THEN a ELSE b

Min(a, b) == IF a < b THEN a ELSE b

\* Position of FlipTestSwitch's double loop after the cell (ig, jg):
\* "break" leaves the inner loop only, so the sweep goes on with the next row.
NextCell(nd, iHx, ig, jg, brk) ==
  IF ~brk /\ jg + 1 < nd + 1 - 1 - ig
  THEN [ig |-> ig, jg |-> jg + 1, done |-> FALSE]
  ELSE IF ig + 1 < iHx
  THEN [ig |-> ig + 1, jg |-> ig + 1, done |-> FALSE]
  ELSE [ig |-> ig, jg |-> jg, done |-> TRUE]

\* iLx, iHx of FlipTestSwitch(ksh, iL, iH)
RowRange(nd, iL, iH) ==
  LET Nx2 == (nd + 1) \div 2
      iLx == Max(Min(iL, Nx2), 1)
  IN  [iLx |-> iLx, iHx |-> Max(Min(iH, Nx2), iLx)]

\* int(np.max(np.abs(ijngp))) + 2 of the handler, from half units
NDplot(tr) ==
  LET vals == {Abs(tr[k].ijcp[1]) : k \in 1..Len(tr)}
                 \cup {Abs(tr[k].ijcp[2]) : k \in 1..Len(tr)}
      m == CHOOSE v \in vals : \A w \in vals : w <= v
  IN  m \div 2 + 2

\* ------------------------------------------------------------------------
\* One generation request: state
\* ------------------------------------------------------------------------

VARIABLES
  ND,             \* KolamDraw.ND
  boundary_type,  \* KolamDraw.boundary_type
  one_stroke,     \* request flag
  Niter,          \* sweeps IterFlipTestSwitch is asked for
  A,              \* KolamDraw.A  (A1 until Dice sets it)
  F,              \* KolamDraw.F  (F1 until Dice sets it)
  pc,             \* position of the request in generate_kolam_base64
  ith,            \* Dice: trial counter
  isx,            \* Dice: count of the last trial
  ismax,          \* Dice: best count so far
  Amax,           \* Dice: matrix of the best count
  Flag2,          \* Dice: 0, 1 (cycle found) or 2 (early exit)
  Ncx,            \* last count held by the caller / the optimizer
  iter,           \* IterFlipTestSwitch: sweep counter
  ig,             \* FlipTestSwitch: row of the next cell
  jg,             \* FlipTestSwitch: column of the next cell
  attempt,        \* handler: one_stroke attempt counter
  A0,             \* matrix self.A at the entry of the current sweep
  Ncx0,           \* count measured at the entry of the current sweep
  result,         \* what the handler returns, None before
  drawn,          \* grid level: the two draws of the last PathCount, or None
  runs,           \* interleaved requests: per request its KolamDraw and history
  rng,            \* state of the generator the interleaved requests draw from
  last,           \* history: what the last loop body of FlipTestSwitch did
  tried,          \* history: cells passed to SwitchGate in this IterFlipTestSwitch
  trials          \* history: the counts isx of the trials of this Dice call

vars == <<ND, boundary_type, one_stroke, Niter, A, F, pc, ith, isx, ismax,
          Amax, Flag2, Ncx, iter, ig, jg, attempt, A0, Ncx0, result, drawn,
          runs, rng, last, tried, trials>>

params == <<ND, boundary_type, one_stroke, Niter>>

diceVars == <<ith, isx, ismax, Amax, Flag2>>

sweepVars == <<iter, ig, jg, A0, Ncx0>>

isoVars == <<drawn, runs, rng>>

histVars == <<last, tried, trials>>

\* Value of last when no loop body of FlipTestSwitch has just run
NoToggle == [kind |-> "none", ig |-> 0, jg |-> 0, Fb |-> 0, Ncxb |-> 0, Nc |-> 0]

None == "None"

Ns == NsOf(ND)

\* KD = KolamDraw(ND); KD.set_boundary(boundary_type); KD.Dice(...) entered,
\* for a request whose one_stroke flag is in flags and whose optimizer is
\* asked for a number of sweeps in niters
InitWith(flags, niters) ==
  /\ ND \in RunNDs
  /\ boundary_type \in Profiles
  /\ one_stroke \in flags
  /\ Niter \in niters
  /\ A = A1(ND)
  /\ F = F1(ND)
  /\ pc = "dice"
  /\ ith = 0
  /\ isx = 0
  /\ ismax = 0
  /\ Amax = A1(ND)
  /\ Flag2 = 0
  /\ Ncx = 0
  /\ iter = 0
  /\ ig = 0
  /\ jg = 0
  /\ attempt = 0
  /\ A0 = A1(ND)
  /\ Ncx0 = 0
  /\ result = None
  /\ drawn = None
  /\ runs = <<>>
  /\ rng = Free
  /\ last = NoToggle
  /\ tried = {}
  /\ trials = <<>>

Init == InitWith(BOOLEAN, 0..MaxNiter)

\* ------------------------------------------------------------------------
\* One generation request: steps
\* ------------------------------------------------------------------------

\* Variant of Dice's update that takes the count of the latest trial
NewIsmaxLatest(Flag1, cnt, best, ns) ==
  IF Flag1 = 1 /\ cnt < ns + 2 THEN cnt ELSE best

\* ismax after a trial of count cnt, lines 281-285: updated when a cycle was
\* found, isx < Ns + 2 and isx > ismax
NewIsmax(Flag1, cnt, best, ns) ==
  IF Flag1 = 1 /\ cnt < ns + 2 /\ cnt > best THEN cnt ELSE best

\* Variant of the rule that also reverts a toggle of equal count
RevertsEqual(Nc, Ncxb) == Nc <= Ncxb

\* FlipTestSwitch line 324: the toggle is reverted iff Nc < Ncx
Reverts(Nc, Ncxb) == Nc < Ncxb

\* A flipped comparison in the early stop (for comparison only)
EarlyStopFlipped(cnt, ns) == cnt <= ns - 5

\* "if Ncx >= self.Ns - 5: break" of FlipTestSwitch and IterFlipTestSwitch
EarlyStop(cnt, ns) == cnt >= ns - 5

\* One iteration of "while ith < Nthr" in Dice, and Dice's return when the
\* loop condition fails afterwards.
DiceTrial ==
  /\ pc = "dice"
  /\ ith < Nthr
  /\ \E s \in AssignGates(ND, boundary_type, Free) :
     \E cnt \in {DiceCount(ND, s.A)} :
       LET Flag1 == IF cnt > 0 THEN 1 ELSE 0
           best  == NewIsmax(Flag1, cnt, ismax, Ns) # ismax
           early == Flag1 = 1 /\ 2 * cnt > Ns - 4
           ithN  == (IF early THEN Nthr + 1 ELSE ith) + 1
       IN  /\ A' = s.A
           /\ F' = s.F
           /\ IF cnt = IndexError
              THEN /\ pc' = "error"
                   /\ UNCHANGED <<diceVars, trials>>
              ELSE /\ isx' = cnt
                   /\ trials' = Append(trials, cnt)
                   /\ ismax' = NewIsmax(Flag1, cnt, ismax, Ns)
                   /\ Amax' = IF best THEN s.A ELSE Amax
                   /\ Flag2' = IF early THEN 2 ELSE IF Flag1 = 1 /\ cnt < Ns + 2 THEN 1 ELSE 0
                   /\ ith' = ithN
                   /\ pc' = IF ithN < Nthr THEN "dice" ELSE "count"
  /\ UNCHANGED <<params, Ncx, sweepVars, attempt, result, isoVars, last, tried>>

\* Ncx = KD.PathCount() of the handler, before IterFlipTestSwitch
HandlerPathCount ==
  /\ pc = "count"
  /\ \E r \in PathCount(ND, A, Free) :
       /\ Ncx' = r.v
       /\ pc' = IF r.v = IndexError THEN "error" ELSE "iter"
  /\ trials' = <<>>
  /\ UNCHANGED <<params, A, F, diceVars, sweepVars, attempt, result, isoVars,
                 last, tried>>

\* IterFlipTestSwitch up to its first sweep, or to its return when it runs
\* no sweep (Niter = 0, or Ncx >= Ns)
IterFlipTestSwitch ==
  /\ pc = "iter"
  /\ \E r \in PathCount(ND, A, Free) :
       /\ Ncx' = r.v
       /\ pc' = IF r.v = IndexError THEN "error"
                ELSE IF r.v < Ns /\ 0 < Niter THEN "sweep" ELSE "iter_ret"
  /\ iter' = 0
  /\ last' = NoToggle
  /\ tried' = {}
  /\ UNCHANGED <<params, A, F, diceVars, ig, jg, A0, Ncx0, attempt, result, isoVars,
                 trials>>

\* Entry of FlipTestSwitch(ksh, 1, Nx2x): the first count and the row range
FlipTestSwitch ==
  /\ pc = "sweep"
  /\ LET rr == RowRange(ND, 1, (ND + 1) \div 2)
     IN  \E r \in PathCount(ND, A, Free) :
           /\ Ncx' = r.v
           /\ Ncx0' = r.v
           /\ A0' = A
           /\ ig' = rr.iLx
           /\ jg' = rr.iLx
           /\ pc' = IF r.v = IndexError THEN "error"
                    ELSE IF rr.iLx < rr.iHx THEN "cell" ELSE "sweep_ret"
  /\ UNCHANGED <<params, A, F, diceVars, iter, attempt, result, isoVars, histVars>>

\* The body of FlipTestSwitch's double loop at the cell (ig, jg)
FlipCell ==
  /\ pc = "cell"
  /\ LET rr == RowRange(ND, 1, (ND + 1) \div 2)
         skip == /\ UNCHANGED <<A, F, Ncx, tried>>
                 /\ last' = [kind |-> "skip", ig |-> ig, jg |-> jg,
                             Fb |-> F[ig][jg], Ncxb |-> Ncx, Nc |-> 0]
                 /\ LET nc == NextCell(ND, rr.iHx, ig, jg, FALSE)
                    IN  /\ ig' = nc.ig
                        /\ jg' = nc.jg
                        /\ pc' = IF nc.done THEN "sweep_ret" ELSE "cell"
     IN  IF F[ig][jg] = 0
         THEN \E t \in toss(Free, ksh) :
                IF t.v = 1
                THEN \E sw \in {SwitchGate(ND, A, F, ig, jg)} :
                         \E r \in PathCount(ND, sw.A, Free) :
                           LET Nc   == r.v
                               rev  == Reverts(Nc, Ncx)
                               NcxN == IF rev THEN Ncx ELSE Nc
                               nc   == NextCell(ND, rr.iHx, ig, jg, EarlyStop(NcxN, Ns))
                           IN  /\ A' = IF rev THEN A ELSE sw.A
                               /\ F' = IF rev THEN F ELSE sw.F
                               /\ last' = [kind |-> IF rev THEN "reverted" ELSE "kept",
                                           ig |-> ig, jg |-> jg, Fb |-> F[ig][jg],
                                           Ncxb |-> Ncx, Nc |-> Nc]
                               /\ tried' = tried \cup {<<ig, jg>>}
                               /\ Ncx' = NcxN
                               /\ ig' = nc.ig
                               /\ jg' = nc.jg
                               /\ pc' = IF Nc = IndexError THEN "error"
                                        ELSE IF nc.done THEN "sweep_ret" ELSE "cell"
                ELSE skip
         ELSE skip
  /\ UNCHANGED <<params, diceVars, iter, A0, Ncx0, attempt, result, isoVars, trials>>

\* Return of FlipTestSwitch into the loop of IterFlipTestSwitch
SweepReturn ==
  /\ pc = "sweep_ret"
  /\ IF EarlyStop(Ncx, Ns) \/ ~(iter + 1 < Niter)
     THEN pc' = "iter_ret" /\ iter' = iter
     ELSE pc' = "sweep" /\ iter' = iter + 1
  /\ UNCHANGED <<params, A, F, diceVars, Ncx, ig, jg, A0, Ncx0, attempt, result, isoVars,
                 histVars>>

\* Return of IterFlipTestSwitch into the handler: the one_stroke loop
\* "for attempt in range(max_attempts): ... if Ncx == 1: break"
IterReturn ==
  /\ pc = "iter_ret"
  /\ IF one_stroke /\ Ncx # 1 /\ attempt + 1 < max_attempts
     THEN pc' = "count" /\ attempt' = attempt + 1
     ELSE pc' = "trace" /\ attempt' = attempt
  /\ last' = NoToggle
  /\ tried' = {}
  /\ UNCHANGED <<params, A, F, diceVars, Ncx, sweepVars, result, isoVars, trials>>

\* KD.XNextSteps(1, 1, 1, Ns) and the handler's return value
Trace ==
  /\ pc = "trace"
  /\ \E tr \in {XNextSteps(ND, A, 1, 1, 1, Ns)} :
         IF \E k \in 1..Len(tr) : tr[k].err
         THEN pc' = "error" /\ result' = None
         ELSE /\ pc' = "done"
              /\ result' = [path_count |-> Ncx, is_one_stroke |-> (Ncx = 1),
                            ND_plot |-> NDplot(tr)]
  /\ UNCHANGED <<params, A, F, diceVars, Ncx, sweepVars, attempt, isoVars, histVars>>

Next ==
  \/ DiceTrial
  \/ HandlerPathCount
  \/ IterFlipTestSwitch
  \/ FlipTestSwitch
  \/ FlipCell
  \/ SweepReturn
  \/ IterReturn
  \/ Trace

Spec == Init /\ [][Next]_vars

\* A regular request up to the end of the first sweep of FlipTestSwitch
SweepInit == InitWith({FALSE}, {1})

SweepNext ==
  \/ DiceTrial
  \/ HandlerPathCount
  \/ IterFlipTestSwitch
  \/ FlipTestSwitch
  \/ FlipCell

SpecSweep == SweepInit /\ [][SweepNext]_vars

\* A regular request up to the return of IterFlipTestSwitch, asked for
\* ImproveSweeps sweeps
ImproveInit == InitWith({FALSE}, {ImproveSweeps})

ImproveNext ==
  \/ DiceTrial
  \/ HandlerPathCount
  \/ IterFlipTestSwitch
  \/ FlipTestSwitch
  \/ FlipCell
  \/ SweepReturn

SpecImprove == ImproveInit /\ [][ImproveNext]_vars

\* ------------------------------------------------------------------------
\* Grid level: the operations of one KolamDraw on its gate grid, for every
\* lattice dimension of GridNDs.  AssignGates as Dice calls it, SwitchGate
\* as FlipTestSwitch calls it on the first cell it toggles, PathCount as
\* both measure the grid they have just written.
\* ------------------------------------------------------------------------

\* The cells FlipTestSwitch(ksh, 1, Nx2x) visits
SweepCells(nd) ==
  LET rr == RowRange(nd, 1, (nd + 1) \div 2)
  IN  {<<i, j>> : i \in rr.iLx..(rr.iHx - 1), j \in 0..nd}
        \cap {c \in (0..nd) \X (0..nd) : c[1] <= c[2] /\ c[2] < nd + 1 - 1 - c[1]}

GridInit ==
  /\ ND \in GridNDs
  /\ boundary_type \in Profiles
  /\ one_stroke = FALSE
  /\ Niter = 0
  /\ A = A1(ND)
  /\ F = F1(ND)
  /\ pc = "new"
  /\ ith = 0
  /\ isx = 0
  /\ ismax = 0
  /\ Amax = A1(ND)
  /\ Flag2 = 0
  /\ Ncx = 0
  /\ iter = 0
  /\ ig = 0
  /\ jg = 0
  /\ attempt = 0
  /\ A0 = A1(ND)
  /\ Ncx0 = 0
  /\ result = None
  /\ drawn = None
  /\ runs = <<>>
  /\ rng = Free
  /\ last = NoToggle
  /\ tried = {}
  /\ trials = <<>>

gridFrame == <<params, diceVars, iter, attempt, A0, Ncx0, result, runs, rng, histVars>>

\* self.A, self.F, kr = self.AssignGates(krRef, Kp, Ki)
GridAssign ==
  /\ pc = "new"
  /\ \E s \in AssignGates(ND, boundary_type, Free) :
       /\ A' = s.A
       /\ F' = s.F
  /\ pc' = "assigned"
  /\ UNCHANGED <<Ncx, ig, jg, drawn, gridFrame>>

\* self.A, self.F, Flag = self.SwitchGate(ig, jg), under the test
\* self.F[ig, jg] == 0 of FlipTestSwitch
GridSwitch ==
  /\ pc = "assigned"
  /\ \E c \in SweepCells(ND) :
       /\ F[c[1]][c[2]] = 0
       /\ \E sw \in {SwitchGate(ND, A, F, c[1], c[2])} :
            /\ A' = sw.A
            /\ F' = sw.F
       /\ ig' = c[1]
       /\ jg' = c[2]
  /\ pc' = "toggled"
  /\ Ncx' = 0
  /\ drawn' = None
  /\ UNCHANGED gridFrame

\* Ncx = self.PathCount()
GridPathCount ==
  /\ pc \in {"assigned", "toggled"}
  /\ drawn = None
  /\ \E a \in 0..1, b \in 0..1 :
       /\ drawn' = <<a, b>>
       /\ Ncx' = PathCountFrom(ND, A, a, b)
  /\ UNCHANGED <<A, F, pc, ig, jg, gridFrame>>

GridNext ==
  \/ GridAssign
  \/ GridSwitch
  \/ GridPathCount

SpecGrid == GridInit /\ [][GridNext]_vars

\* ------------------------------------------------------------------------
\* Two interleaved requests.  Each has its own KolamDraw (A, F, Ncx); toss
\* and PathCount of both draw from the one module-level generator np.random,
\* here seeded.  Each request runs AssignGates (one trial of Dice) and then
\* PathCount; the two requests interleave between these calls.
\* ------------------------------------------------------------------------

Requests == 1..2

IsoInit ==
  /\ ND \in RunNDs
  /\ boundary_type \in Profiles
  /\ one_stroke = FALSE
  /\ Niter = 0
  /\ A = A1(ND)
  /\ F = F1(ND)
  /\ pc = "interleaved"
  /\ ith = 0
  /\ isx = 0
  /\ ismax = 0
  /\ Amax = A1(ND)
  /\ Flag2 = 0
  /\ Ncx = 0
  /\ iter = 0
  /\ ig = 0
  /\ jg = 0
  /\ attempt = 0
  /\ A0 = A1(ND)
  /\ Ncx0 = 0
  /\ result = None
  /\ drawn = None
  /\ rng \in Seeds
  /\ runs = [r \in Requests |->
               [pc |-> "new", A |-> A1(ND), F |-> F1(ND), Ncx |-> 0, seen |-> <<>>]]
  /\ last = NoToggle
  /\ tried = {}
  /\ trials = <<>>

isoFrame == <<params, A, F, pc, diceVars, Ncx, sweepVars, attempt, result, drawn,
              histVars>>

\* Request r: self.A, self.F, kr = self.AssignGates(krRef, Kp, Ki).
\* seen records the generator state each call of the request started from.
IsoAssign(r) ==
  /\ runs[r].pc = "new"
  /\ \E s \in AssignGates(ND, boundary_type, rng) :
       /\ runs' = [runs EXCEPT ![r] = [pc |-> "assigned", A |-> s.A, F |-> s.F,
                                       Ncx |-> 0, seen |-> <<rng>>]]
       /\ rng' = s.rng
  /\ UNCHANGED isoFrame

\* Request r: Ncx = KD.PathCount()
IsoPathCount(r) ==
  /\ runs[r].pc = "assigned"
  /\ \E c \in PathCount(ND, runs[r].A, rng) :
       /\ runs' = [runs EXCEPT ![r].pc = "done", ![r].Ncx = c.v,
                               ![r].seen = Append(@, rng)]
       /\ rng' = c.rng
  /\ UNCHANGED isoFrame

IsoNext == \E r \in Requests : IsoAssign(r) \/ IsoPathCount(r)

SpecIso == IsoInit /\ [][IsoNext]_vars

\* ------------------------------------------------------------------------
\* Properties
\* ------------------------------------------------------------------------

Symmetric(M, nd) ==
  \A i \in 0..nd, j \in 0..nd :
    /\ M[i][j] = M[j][i]
    /\ M[i][j] = M[nd - i][nd - j]
    /\ M[i][j] = M[nd - j][nd - i]

\* C1: every gate matrix produced by assign or by optimizer toggles is
\* four-fold symmetric: A[i,j] = A[j,i] = A[Nx-1-i,Nx-1-j] = A[Nx-1-j,Nx-1-i].
C1_Symmetry == pc \in {"assigned", "toggled"} => Symmetric(A, ND)

BorderClosed(M, nd) ==
  \A i \in 0..nd, j \in 0..nd : IsBorder(nd, i, j) => M[i][j] = 0

DiagonalsOpen(M, nd) ==
  \A i \in 1..(nd - 1) : M[i][i] = 1 /\ M[i][nd - i] = 1

\* C2: once Dice has assigned the grid, and after every assigner and
\* optimizer step that follows, every border cell is CLOSED and every
\* interior cell of the two diagonals is OPEN.
C2_BoundaryFixed ==
  (pc # "error" /\ (pc # "dice" \/ ith > 0))
    => (BorderClosed(A, ND) /\ DiagonalsOpen(A, ND))

\* C3: at the end of the first sweep of FlipTestSwitch, entered on a matrix
\* A0 that AssignGates produced, the count PathCount gives for the matrix
\* left in the grid is not smaller than the count it gives for A0, whatever
\* start positions the two measurements draw.
C3_MonotonicSweep ==
  (pc = "sweep_ret" /\ iter = 0 /\ attempt = 0)
    => \A a \in 0..1, b \in 0..1, c \in 0..1, d \in 0..1 :
         PathCountFrom(ND, A, a, b) >= PathCountFrom(ND, A0, c, d)

\* C4: when Dice returns, the matrix self.A held by the grid has the best
\* count: its count from start (1,1), code 0, equals ismax.
C4_DiceKeepsBest ==
  (pc = "count" /\ attempt = 0) => DiceCount(ND, A) = ismax

\* C5: in the matrix AssignGates returns, every cell outside the boundary
\* of a non-full profile is CLOSED.
C5_MaskFinal ==
  (pc = "assigned" /\ boundary_type # "diamond")
    => \A i \in 0..ND, j \in 0..ND :
         ~is_inside_boundary(ND, boundary_type, i, j) => A[i][j] = 0

\* The state of the automaton after k steps from (i0, j0) with code 0, as
\* XNextSteps records it
StateAfter(tr, k) == <<tr[k + 1].ijcx[1], tr[k + 1].ijcx[2], tr[k + 1].cex>>

\* C6: PathCount returns an integer k in 0..Ns without raising; if k > 0 the
\* k-th state equals the start state in position and code and no state
\* 1..k-1 does; if k = 0 no state 1..Ns equals the start state.
C6_CountSound ==
  drawn # None =>
    LET i0 == 2 * drawn[1] - 1
        j0 == 2 * drawn[2] - 1
        tr == XNextSteps(ND, A, i0, j0, 0, (IF Ncx > 0 THEN Ncx ELSE Ns) + 1)
    IN  /\ Ncx \in 0..Ns
        /\ \A k \in 1..(Len(tr) - 1) : ~tr[k].err
        /\ Ncx > 0 => /\ StateAfter(tr, Ncx) = <<i0, j0, 0>>
                      /\ \A m \in 1..(Ncx - 1) : StateAfter(tr, m) # <<i0, j0, 0>>
        /\ Ncx = 0 => \A m \in 1..Ns : StateAfter(tr, m) # <<i0, j0, 0>>

\* C6 witness: PathCount has measured a toggled grid and found a cycle
C6_Witness == pc = "toggled" /\ drawn # None /\ Ncx > 0

\* C7: IterFlipTestSwitch with Niter = 0 leaves A and F unchanged and
\* returns the count the handler's PathCount measured just before the call.
C7_ZeroIterations ==
  [][(pc = "iter" /\ Niter = 0) => (A' = A /\ F' = F /\ Ncx' = Ncx)]_vars

\* What AssignGates returns to a request that starts alone from generator
\* state s0, and what its PathCount then returns
SoloAssign(s0) == CHOOSE s \in AssignGates(ND, boundary_type, s0) : TRUE

SoloCount(s0) ==
  CHOOSE c \in PathCount(ND, SoloAssign(s0).A, SoloAssign(s0).rng) : TRUE

\* C10: a request sees the same random draws, and ends with the same gate
\* matrix and count, whether or not the other request runs in between.
C10_RunIsolation ==
  \A r \in Requests :
    runs[r].pc = "done" =>
      LET s0 == runs[r].seen[1]
      IN  /\ runs[r].seen = <<s0, SoloAssign(s0).rng>>
          /\ runs[r].A = SoloAssign(s0).A
          /\ runs[r].Ncx = SoloCount(s0).v

\* The last loop body of FlipTestSwitch passed its cell to SwitchGate
Toggled == last.kind \in {"kept", "reverted"}

\* C11: a cell is passed to SwitchGate only if its flag F[ig,jg] is 1 at
\* that moment.
C11_OnlyFlexible == Toggled => last.Fb = 1

\* C12: within one call of IterFlipTestSwitch no cell is passed to
\* SwitchGate twice.
C12_SingleTrial ==
  [][(pc = "cell" /\ last'.kind \in {"kept", "reverted"})
       => <<ig, jg>> \notin tried]_vars

\* C13: when a loop body of FlipTestSwitch toggles its cell and measures Nc,
\* then if Nc < Ncx the matrix is the one before the toggle and Ncx is
\* unchanged, and if Nc >= Ncx the matrix is the toggled one and Ncx is Nc;
\* so Ncx never decreases.
C13_AcceptRevert ==
  [][(pc = "cell" /\ last'.kind \in {"kept", "reverted"})
       => LET sw == SwitchGate(ND, A, F, ig, jg)
              Nc == last'.Nc
          IN  /\ Nc \in {PathCountFrom(ND, sw.A, a, b) : a \in 0..1, b \in 0..1}
              /\ Nc < Ncx => (A' = A /\ Ncx' = Ncx)
              /\ Nc >= Ncx => (A' = sw.A /\ Ncx' = Nc)
              /\ Ncx' >= Ncx]_vars

\* C13 witness: a sweep in which one toggle was kept and a later one reverted
C13_Witness == last.kind = "reverted" /\ A # A0 /\ last.Nc > 0

\* isx > (Ns / 2) - 2
OverHalf(c) == 2 * c > Ns - 4

MaxOf(q) == CHOOSE m \in {q[k] : k \in 1..Len(q)} : \A k \in 1..Len(q) : q[k] <= m

\* C14: Dice runs at most Nthr trials; it stops right after the first trial
\* whose count exceeds Ns/2 - 2, with Flag2 = 2; otherwise it runs exactly
\* Nthr trials and ismax is the largest count of all trials.
C14_DiceBudget ==
  /\ Len(trials) <= Nthr
  /\ \A k \in 1..(Len(trials) - 1) : ~OverHalf(trials[k])
  /\ (pc = "count" /\ attempt = 0) =>
       IF OverHalf(trials[Len(trials)])
       THEN Flag2 = 2
       ELSE Len(trials) = Nthr /\ ismax = MaxOf(trials)

\* C14 witness: Dice has returned after Nthr trials of which the last was
\* not the best
C14_Witness ==
  pc = "count" /\ attempt = 0 /\ Len(trials) = Nthr /\ isx < ismax

\* C15: ResetGateMatrix returns A, F with every border cell 0/F=0, every
\* interior diagonal cell 1/F=0 for every profile, every other cell outside
\* the boundary 0/F=0 and every remaining cell 99/F=1.
C15_ResetPost ==
  pc = "assigned" =>
    LET r == ResetGateMatrix(ND, boundary_type)
    IN  \A i \in 0..ND, j \in 0..ND :
          IF IsBorder(ND, i, j) THEN r.A[i][j] = 0 /\ r.F[i][j] = 0
          ELSE IF IsDiagonal(ND, i, j) THEN r.A[i][j] = 1 /\ r.F[i][j] = 0
          ELSE IF boundary_type # "diamond"
                  /\ ~is_inside_boundary(ND, boundary_type, i, j)
          THEN r.A[i][j] = 0 /\ r.F[i][j] = 0
          ELSE r.A[i][j] = 99 /\ r.F[i][j] = 1

\* C16: in the matrix AssignGates returns under the diamond profile, no
\* cell (i,j+1) that the assigner assigned at the loop cell (i,j) is CLOSED
\* together with A[i-1,j], A[i-1,j+1] and A[i,j].
C16_AntiIsolation ==
  (pc = "assigned" /\ boundary_type = "diamond") =>
    LET r == ResetGateMatrix(ND, boundary_type)
        cells == QuadrantCells(ND)
    IN  \A k \in DOMAIN cells :
          LET i == cells[k][1]
              j == cells[k][2]
          IN  r.F[i][j + 1] = 1 =>
                ~(A[i - 1][j] = 0 /\ A[i - 1][j + 1] = 0
                    /\ A[i][j] = 0 /\ A[i][j + 1] = 0)

\* C16 witness: a diamond matrix in which the rule forced a cell OPEN: the
\* three gates are CLOSED and the assigned cell (i,j+1) is OPEN
C16_Witness ==
  /\ pc = "assigned"
  /\ boundary_type = "diamond"
  /\ \E k \in DOMAIN QuadrantCells(ND) :
       LET i == QuadrantCells(ND)[k][1]
           j == QuadrantCells(ND)[k][2]
       IN  /\ ResetGateMatrix(ND, boundary_type).F[i][j + 1] = 1
           /\ A[i - 1][j] = 0 /\ A[i - 1][j + 1] = 0 /\ A[i][j] = 0
           /\ A[i][j + 1] = 1

\* C18: the matrix AssignGates returns holds no 99 and its F is 0 everywhere.
C18_AssignComplete ==
  pc = "assigned" =>
    \A i \in 0..ND, j \in 0..ND : A[i][j] # 99 /\ F[i][j] = 0

\* Positions with odd coordinates inside the lattice
OddPos(nd) == {p \in (0 - nd)..nd : p % 2 = 1}

\* C17: from every odd position inside the lattice, with every code and the
\* gate found there, NextStep changes exactly one coordinate, by +2 or -2;
\* with an OPEN gate the code is kept and the draw point is the position;
\* with a CLOSED gate alpha flips and the draw point is off by 0.5 in each
\* coordinate; the next code is in 0..3 and decodes to (nalpha, nbeta).
C17_StepGeometry ==
  \A icg \in OddPos(ND), jcg \in OddPos(ND), ce \in 0..3 :
    LET s  == NextStep(ND, A, icg, jcg, ce)
        g  == A[(icg + ND) \div 2][(jcg + ND) \div 2]
        di == s.ing - icg
        dj == s.jng - jcg
    IN  /\ ~s.err
        /\ \/ Abs(di) = 2 /\ dj = 0
           \/ di = 0 /\ Abs(dj) = 2
        /\ g = 1 => /\ s.ne = ce
                    /\ s.ingp = 2 * icg
                    /\ s.jngp = 2 * jcg
        /\ g = 0 => /\ s.ne % 2 # ce % 2
                    /\ Abs(s.ingp - 2 * icg) = 1
                    /\ Abs(s.jngp - 2 * jcg) = 1
        /\ s.ne \in 0..3
        /\ s.nalpha = s.ne % 2
        /\ s.nbeta = (IF s.ne > 1 THEN 0 - 1 ELSE 1)

\* C17 witness: a toggled grid, holding OPEN and CLOSED interior gates, on
\* which PathCount has stepped the automaton
C17_Witness ==
  /\ pc = "toggled"
  /\ drawn # None
  /\ \E i \in 1..(ND - 1), j \in 1..(ND - 1) : A[i][j] = 0
  /\ \E i \in 1..(ND - 1), j \in 1..(ND - 1) : A[i][j] = 1

\* Both gate indices floor((pos + ND) / 2) of the state cur lie in 0..Nx-1
IndexInside(nd, cur) ==
  /\ (cur.i + nd) \div 2 \in 0..nd
  /\ (cur.j + nd) \div 2 \in 0..nd

RECURSIVE ConfinedLoop(_, _, _, _, _)
\* The n steps that follow the state cur of a trace begun in start: ok iff
\* each of them indexes A inside 0..Nx-1, closed iff one of them leads back
\* to start, after which the trace repeats the steps already seen.  Two
\* consecutive halves, the second only if the first neither failed nor
\* closed.
ConfinedLoop(nd, M, start, cur, n) ==
  IF n = 0 THEN [cur |-> cur, ok |-> TRUE, closed |-> FALSE]
  ELSE IF n = 1
  THEN LET s == NextStep(nd, M, cur.i, cur.j, cur.ce)
           nxt == [i |-> s.ing, j |-> s.jng, ce |-> s.ne]
       IN  [cur |-> nxt, ok |-> IndexInside(nd, cur) /\ ~s.err,
            closed |-> nxt = start]
  ELSE LET h == n \div 2
           first == ConfinedLoop(nd, M, start, cur, h)
       IN  IF ~first.ok \/ first.closed THEN first
           ELSE ConfinedLoop(nd, M, start, first.cur, n - h)

\* Every one of the Ns - 1 steps of XNextSteps from start indexes A inside
\* 0..Nx-1
Confined(nd, M, start) == ConfinedLoop(nd, M, start, start, NsOf(nd) - 1).ok

\* The starts of the handler's trace, of Dice and of PathCount
TraceStarts ==
  {[i |-> 1, j |-> 1, ce |-> 0], [i |-> 1, j |-> 1, ce |-> 1]}
    \cup {[i |-> 2 * a - 1, j |-> 2 * b - 1, ce |-> 0] : a \in 0..1, b \in 0..1}

\* C19: on every grid produced by AssignGates or by a toggle, the border is
\* CLOSED and every trace from (1,1) with code 0 or 1, or from (+-1,+-1)
\* with code 0, indexes A inside 0..Nx-1 at every step.
C19_PathConfined ==
  pc \in {"assigned", "toggled"} =>
    /\ BorderClosed(A, ND)
    /\ \A st \in TraceStarts : Confined(ND, A, st)

\* C19 witness: a toggled grid on which PathCount has traced a cycle
C19_Witness == pc = "toggled" /\ drawn # None /\ Ncx > 2 * ND

\* C20: on every grid produced by AssignGates or by a toggle, the count
\* from each of the four starts (+-1,+-1), code 0, is not 0; so PathCount
\* and the evaluation of Dice never yield 0.
C20_NoDegenerateTrace ==
  /\ pc \in {"assigned", "toggled"} =>
       \A a \in 0..1, b \in 0..1 : PathCountFrom(ND, A, a, b) > 0
  /\ pc = "assigned" => DiceCount(ND, A) > 0
  /\ drawn # None => Ncx > 0

\* C20 witness: PathCount has returned a count on an assigned grid of the
\* larger lattice
C20_Witness == pc = "assigned" /\ drawn # None /\ ND = 7 /\ Ncx > 0

\* The number of automaton states (position, code) of a lattice
AutomatonStates(nd) == 4 * (nd + 1) * (nd + 1)

\* The counts of the improvement stay within the number of automaton states
CountsBounded ==
  /\ \A nd \in GridNDs : AutomatonStates(nd) < NsOf(nd) - 5
  /\ Ncx <= AutomatonStates(ND)
  /\ isx <= AutomatonStates(ND)
  /\ last.Nc <= AutomatonStates(ND)
  /\ pc = "iter_ret" => iter + 1 = Niter

\* A step of the improvement that is not cut short by an early stop
FullSweepStep ==
  /\ pc = "iter" => pc' = IF 0 < Niter THEN "sweep" ELSE "iter_ret"
  /\ pc = "cell" =>
       LET nc == NextCell(ND, RowRange(ND, 1, (ND + 1) \div 2).iHx, ig, jg, FALSE)
       IN  /\ ig' = nc.ig
           /\ jg' = nc.jg
           /\ pc' = IF nc.done THEN "sweep_ret" ELSE "cell"
  /\ pc = "sweep_ret" =>
       IF iter + 1 < Niter
       THEN pc' = "sweep" /\ iter' = iter + 1
       ELSE pc' = "iter_ret" /\ iter' = iter

\* C21: every count is at most 4*(ND+1)^2, which is below Ns - 5; so no
\* sweep leaves a row early, no sweep is followed by an early return, and
\* IterFlipTestSwitch returns after exactly Niter sweeps.
C21_ThresholdUnreachable == [](CountsBounded) /\ [][FullSweepStep]_vars

\* C21 witness: IterFlipTestSwitch returns after its last sweep, in which a
\* toggle was kept
C21_Witness ==
  /\ pc = "iter_ret"
  /\ Niter = ImproveSweeps
  /\ iter + 1 = Niter
  /\ last.kind = "kept"

\* The period of a trace: the least k > 0 whose row k repeats the position
\* and code of row 0 (0 if no row of the trace does)
TracePeriod(tr) ==
  LET back == {k \in 1..(Len(tr) - 1) :
                 tr[k + 1].ijcx = tr[1].ijcx /\ tr[k + 1].cex = tr[1].cex}
  IN  IF back = {} THEN 0 ELSE CHOOSE k \in back : \A m \in back : k <= m

\* C22: when the handler returns, the trace it draws, XNextSteps(1, 1, 1, Ns)
\* on the final gate matrix, first repeats its start state after exactly
\* path_count steps, the cycle length the optimizer reported.
C22_DrawnEqualsMeasured ==
  pc = "done" => TracePeriod(XNextSteps(ND, A, 1, 1, 1, Ns)) = result.path_count

====
